---- MODULE Spec2Model ----
(***************************************************************************)
(* Gift-card fulfillment service: the order webhook (main.py,              *)
(* idosell_order_webhook), the code pool (gift_codes) with the allocator   *)
(* crud.assign_unused_gift_code, the admin operations that write the pool  *)
(* (admin_add_codes, admin_manual_issue) and the audit table               *)
(* (webhook_events, log_webhook_event).                                    *)
(*                                                                         *)
(* The database is PostgreSQL (main.py queries pg_catalog) used through    *)
(* SQLAlchemy sessions with no isolation level set anywhere in the code:   *)
(* every statement of a session reads the committed table overlaid with    *)
(* the session's own uncommitted writes (READ COMMITTED), an UPDATE of a   *)
(* row that another open session has updated waits for that session to     *)
(* end, and then applies (its WHERE clause, id = :id, still matches).      *)
(* One step of the model is one SQL statement of a handler; what a handler  *)
(* does after its commit (email, order note, audit row, response) touches  *)
(* no shared row and is one step.                                          *)
(***************************************************************************)
EXTENDS Integers, Sequences, FiniteSets, TLC

\* ---------------------------------------------------------------- bounds
MaxCodes == 3          \* rows the gift_codes table may hold
MaxRequests == 2       \* requests (webhook deliveries, manual issuances) served
MaxAppends == 3        \* calls of append_order_note_with_voucher on the order
MaxLines == 2          \* product lines of a payload classified on its own

\* ------------------------------------------------------------- constants
GIFT_PRODUCT_ID == 14409
\* Any product that is not the gift card.
OTHER_PRODUCT_ID == GIFT_PRODUCT_ID + 1

NULL == "NULL"

\* GIFT_VARIANTS of main.py, restricted to the first two of its four labels
\* (the labels are written here in ASCII).
GiftLabels == <<"100 zl", "200 zl">>

GIFT_VARIANTS(label) ==
    IF label = "100 zl" THEN 100 ELSE IF label = "200 zl" THEN 200 ELSE 0

Denominations == {GIFT_VARIANTS(GiftLabels[i]) : i \in DOMAIN GiftLabels}

\* Worker slots: requests served at the same time (one per worker process
\* or thread), each with its own database session. The slots are
\* interchangeable, so a request is given to the first free one.
Procs == {1, 2}

\* ------------------------------------------------------- request payloads
\* A JSON value read where the code expects a number: null (or a missing
\* key, which dict.get reads as None), a number, a string.
JNull == [kind |-> "null", int |-> 0, str |-> ""]

JInt(n) == [kind |-> "int", int |-> n, str |-> ""]

JStr(text) == [kind |-> "str", int |-> 0, str |-> text]

\* A product line of an order. A text key the line lacks (or null) is "":
\* the code treats None and "" alike ("if p", "or").
Item(pid, label, qty) ==
    [productId |-> JInt(pid), productName |-> "", sizePanelName |-> label,
     sizeName |-> "", versionName |-> "", productQuantity |-> JInt(qty),
     quantity |-> JNull]

\* The orders of the shop: the products of an order never change, so every
\* delivery of an order's webhook carries the same product lines.
Orders == {"S0", "S1", "S2", "S3", "N1", "N2"}

\* The orderSerialNumber of the order's payload: the payloads of N1 and N2
\* carry none.
OrderSerial(o) == IF o \in {"N1", "N2"} THEN NULL ELSE o

\* str(order_serial): str(None) is "None"; a serial number stands for its
\* own numeral.
Str(order_serial) == IF order_serial = NULL THEN "None" ELSE order_serial

OrderProducts(o) ==
    CASE o = "S0" -> <<Item(OTHER_PRODUCT_ID, "M", 1)>>
      [] o = "S1" -> <<Item(GIFT_PRODUCT_ID, "100 zl", 2)>>
      [] o = "S2" -> <<Item(GIFT_PRODUCT_ID, "100 zl", 1),
                       Item(OTHER_PRODUCT_ID, "L", 1),
                       Item(GIFT_PRODUCT_ID, "200 zl", 1)>>
      [] o = "S3" -> <<Item(GIFT_PRODUCT_ID, "100 zl", 1),
                       Item(GIFT_PRODUCT_ID, "100 zl", 1)>>
      [] o \in {"N1", "N2"} -> <<Item(GIFT_PRODUCT_ID, "100 zl", 1)>>

\* The customer's email is part of the order: S2 was placed without one.
OrderEmail(o) == o # "S2"

\* The paymentStatus of the order's prepaids: a paid one after an unpaid
\* one, an unpaid one alone, none at all.
PrepaidChoices == {<<"n", "y">>, <<"n">>, <<>>}

\* A payload with a recognizable order envelope.
OrderPayloads ==
    {[envelope |-> TRUE, orderId |-> o, orderSerialNumber |-> OrderSerial(o),
      prepaids |-> pp,
      productsResults |-> OrderProducts(o), email |-> OrderEmail(o)] :
        o \in Orders, pp \in PrepaidChoices}

\* A payload none of the four envelope shapes matches.
NoOrderPayload ==
    [envelope |-> FALSE, orderId |-> NULL, orderSerialNumber |-> NULL,
     prepaids |-> <<>>,
     productsResults |-> <<>>, email |-> FALSE]

Payloads == OrderPayloads \cup {NoOrderPayload}

\* ---------------------------------------------------------------- state
VARIABLES
    gift_codes,       \* the committed gift_codes table; a row's id is its index
    webhook_events,   \* per worker slot: the webhook_events rows its request wrote
    inv,              \* per worker slot: the request it serves, its locals
    session,          \* per worker slot: ids of rows updated, not yet committed
    emails,           \* per worker slot: its request's calls of send_giftcard_email
    emails_total,     \* per order: calls of send_giftcard_email made so far
    note_updates,     \* per worker slot: its request's calls of update_order_note
    idosell_client,   \* whether the global Idosell client is configured
    requests,         \* number of requests started
    workers,          \* number of worker slots the deployment runs
    audit_fails,      \* whether an INSERT into webhook_events may raise
    shop,             \* the orders the shop has taken
    order_note,       \* the note Idosell holds for the order
    appends,          \* per caller: its call of append_order_note_with_voucher
    note_history,     \* history: the note before the first call, the calls made
    delivery,         \* a payload delivered to the webhook, and its classification
    kept,             \* which history the run keeps: "requests" (before,
                      \* previous), "orders" (before, previous webhook),
                      \* "admin" (added) or "none"
    before,           \* history: gift_codes as it was when the request started
    previous,         \* history: the manual issuance that claimed a code,
                      \* when it was served just before the current request
    added,            \* history: the call of admin_add_codes made since the
                      \* last request started
    exhausted         \* history: orders that held no code when their webhook
                      \* met an empty pool, and were given none since

\* webhook_events is append-only and no handler reads it: the model keeps the
\* rows of the request each slot serves (or served last), not the older ones.
vars == <<gift_codes, webhook_events, inv, session, emails, emails_total,
          note_updates, idosell_client, requests, workers, shop, order_note, appends, note_history, delivery, kept, audit_fails,
          before, previous, added, exhausted>>

\* The payloads Idosell delivers: the webhooks of the orders the shop has
\* taken, and payloads that carry no order.
Delivered ==
    {payload \in Payloads : payload.envelope => payload.orderId \in shop}

\* What the service's own state is made of: everything but the note Idosell
\* holds and the payload classified on its own.
main_vars == <<gift_codes, webhook_events, inv, session, emails, emails_total,
               note_updates, idosell_client, requests, workers, shop, kept,
               audit_fails, before, previous, added, exhausted>>

\* ------------------------------------------------------ pure functions
Min(S) == CHOOSE x \in S : \A y \in S : x <= y

\* Python's truth value of a JSON value.
Truthy(v) == (v.kind = "int" /\ v.int # 0) \/ (v.kind = "str" /\ v.str # "")

\* "a or b"
Or(a, b) == IF Truthy(a) THEN a ELSE b

\* The strings int() parses, among those the payloads carry.
Numerals == {"14409", "2", "0"}

ParseInt(text) ==
    CASE text = "14409" -> GIFT_PRODUCT_ID
      [] text = "2" -> 2
      [] OTHER -> 0

\* int(v): the number, or ValueError for a string that is no numeral and
\* TypeError for None.
IntOf(v) ==
    CASE v.kind = "int" -> [raised |-> FALSE, int |-> v.int]
      [] v.kind = "str" -> [raised |-> v.str \notin Numerals,
                            int |-> ParseInt(v.str)]
      [] OTHER -> [raised |-> TRUE, int |-> 0]

\* The characters of the texts the payloads carry.
Chars(text) ==
    CASE text = "100 zl" -> <<"1", "0", "0", " ", "z", "l">>
      [] text = "200 zl" -> <<"2", "0", "0", " ", "z", "l">>
      [] text = "Karta 100 zl" ->
            <<"K", "a", "r", "t", "a", " ", "1", "0", "0", " ", "z", "l">>
      [] text = "200zl" -> <<"2", "0", "0", "z", "l">>
      [] text = "200zl x2" -> <<"2", "0", "0", "z", "l", " ", "x", "2">>
      [] text = "250" -> <<"2", "5", "0">>
      [] text = "M" -> <<"M">>
      [] text = "L" -> <<"L">>
      [] OTHER -> <<>>

\* "label in text"
HasLabel(text, label) ==
    LET chars == Chars(text)
        wanted == Chars(label)
    IN  \E i \in 0..(Len(chars) - Len(wanted)) :
            SubSeq(chars, i + 1, i + Len(wanted)) = wanted

DigitChars == <<"0", "1", "2", "3", "4", "5", "6", "7", "8", "9">>

\* ch.isdigit()
IsDigit(ch) == \E i \in DOMAIN DigitChars : DigitChars[i] = ch

\* int() of a string of digits, 0 for the empty string.
RECURSIVE ToNumber(_)
ToNumber(digits) ==
    IF digits = <<>> THEN 0
    ELSE ToNumber(SubSeq(digits, 1, Len(digits) - 1)) * 10
         + (CHOOSE i \in DOMAIN DigitChars :
                DigitChars[i] = digits[Len(digits)]) - 1

\* int("".join(ch for ch in text if ch.isdigit())): every digit of the text,
\* in order; 0 for a text without digits.
Digits(text) == ToNumber(SelectSeq(Chars(text), IsDigit))

\* Mutant: every variant resolves to the first denomination.
MatchedValueFirstLabel(item) == GIFT_VARIANTS(GiftLabels[1])

\* The denomination a product line resolves to, 0 for none: the first label
\* of GIFT_VARIANTS found in the line's variant text (productName,
\* sizePanelName, sizeName, versionName), or else the digits of sizePanelName
\* (of sizeName when that is empty) when they are a denomination.
MatchedValue(item) ==
    LET variant_text_parts == <<item.productName, item.sizePanelName,
                                item.sizeName, item.versionName>>
        hits == {i \in DOMAIN GiftLabels :
                    \E k \in DOMAIN variant_text_parts :
                        HasLabel(variant_text_parts[k], GiftLabels[i])}
        raw == IF item.sizePanelName # "" THEN item.sizePanelName
               ELSE item.sizeName
    IN  IF hits # {} THEN GIFT_VARIANTS(GiftLabels[Min(hits)])
        ELSE IF Digits(raw) \in Denominations THEN Digits(raw)
        ELSE 0

\* int(item.get("productId") or 0); a value int() rejects skips the line.
ProductId(item) == IntOf(Or(item.productId, JInt(0)))

\* The line passes both "continue" tests of the loop.
IsGiftLine(item) ==
    /\ ~ProductId(item).raised
    /\ ProductId(item).int = GIFT_PRODUCT_ID
    /\ MatchedValue(item) # 0

\* int(item.get("productQuantity") or item.get("quantity") or 1)
QuantityOf(item) ==
    IntOf(Or(item.productQuantity, Or(item.quantity, JInt(1))))

Quantity(item) == QuantityOf(item).int

\* The int() of the quantity raises: nothing in the function catches it.
QuantityRaises(item) == QuantityOf(item).raised

\* The list the loop has built when it ends, by exhaustion of the product
\* lines or by the exception of a quantity.
RECURSIVE _extract_giftcard_positions(_)
_extract_giftcard_positions(products) ==
    IF products = <<>> THEN <<>>
    ELSE LET item == Head(products)
         IN  IF ~IsGiftLine(item)
             THEN _extract_giftcard_positions(Tail(products))
             ELSE IF QuantityRaises(item) THEN <<>>
             ELSE <<[value |-> MatchedValue(item),
                     quantity |-> Quantity(item)]>>
                  \o _extract_giftcard_positions(Tail(products))

\* The call of _extract_giftcard_positions ends by an exception.
ExtractRaises(products) ==
    \E i \in DOMAIN products :
        /\ IsGiftLine(products[i])
        /\ QuantityRaises(products[i])

\* Mutant: every order counts as paid.
IsOrderPaidAlways(prepaids) == TRUE

_is_order_paid(prepaids) ==
    \E i \in DOMAIN prepaids : prepaids[i] = "y"

\* _extract_giftcard_positions(order) for every payload delivered: the
\* function is pure, its results are computed once.
GiftPositions ==
    [payload \in Payloads |->
        _extract_giftcard_positions(payload.productsResults)]

\* The gift lines every webhook of the order carries.
OrderGiftLines ==
    [o \in Orders |-> _extract_giftcard_positions(OrderProducts(o))]

\* ----------------------------------------------------- database sessions
\* What a statement of p's session reads: the committed rows, with the
\* order_id p's own uncommitted UPDATEs have written.
Visible(p) ==
    [i \in DOMAIN gift_codes |->
        IF i \in session[p]
        THEN [gift_codes[i] EXCEPT !.order_id = Str(inv[p].order_serial)]
        ELSE gift_codes[i]]

\* SELECT COUNT(*) FROM gift_codes WHERE order_id = :order_id AND value = :value
ExistingCount(p, order_id, value) ==
    Cardinality({i \in DOMAIN gift_codes :
                    /\ Visible(p)[i].order_id = order_id
                    /\ Visible(p)[i].value = value})

\* Mutant: the SELECT orders by id DESC.
SelectUnusedNewest(p, value) ==
    LET free == {i \in DOMAIN gift_codes :
                    /\ Visible(p)[i].value = value
                    /\ Visible(p)[i].order_id = NULL}
    IN  IF free = {} THEN 0 ELSE CHOOSE i \in free : \A j \in free : j <= i

\* SELECT id FROM gift_codes WHERE value = :value AND order_id IS NULL
\* ORDER BY id ASC LIMIT 1; 0 stands for "no row".
SelectUnused(p, value) ==
    LET free == {i \in DOMAIN gift_codes :
                    /\ Visible(p)[i].value = value
                    /\ Visible(p)[i].order_id = NULL}
    IN  IF free = {} THEN 0 ELSE Min(free)

\* The row lock an uncommitted UPDATE of another session holds.
LockedByOther(p, id) ==
    \E q \in Procs \ {p} : id \in session[q]

\* Mutant: a commit that loses the session's UPDATEs.
CommitDropsUpdates(p) == gift_codes

\* db.commit(): the session's UPDATEs reach the committed table.
Committed(p) == Visible(p)

\* The row log_webhook_event inserts into webhook_events.
AuditRow(status, text, arg, order_serial) ==
    [status |-> status, message |-> <<text, arg>>, order_serial |-> order_serial]

\* Whether the INSERT of log_webhook_event goes through.
AuditOutcomes == IF audit_fails THEN BOOLEAN ELSE {TRUE}

\* Mutant: an INSERT that raises makes log_webhook_event raise.
LogWebhookEventRaises(events, ok, status, text, arg, order_serial) ==
    [events |-> IF ok
                THEN Append(events, AuditRow(status, text, arg, order_serial))
                ELSE events,
     raised |-> ~ok]

\* log_webhook_event: the row is appended to webhook_events, or the INSERT
\* raises and "except Exception" logs the error; the function never raises.
log_webhook_event(events, ok, status, text, arg, order_serial) ==
    [events |-> IF ok
                THEN Append(events, AuditRow(status, text, arg, order_serial))
                ELSE events,
     raised |-> FALSE]

\* ------------------------------------------------------ external calls
\* send_giftcard_email as email_utils.py declares it, and as main.py calls it.
\* A call whose keywords the signature does not accept raises TypeError
\* before anything is sent; a call that binds is sent or fails in transport.
SendGiftcardEmailParams == {"to_email", "order_id", "codes", "pdf_files"}

WebhookEmailKeywords == {"to_email", "codes", "order_serial_number"}

send_giftcard_email(keywords) ==
    IF keywords = SendGiftcardEmailParams
    THEN {"sent", "failed"}
    ELSE {"TypeError"}

\* The methods idosell_client.py gives IdosellClient, and the outcomes of
\* calling one on the configured client: a method the class lacks raises
\* AttributeError.
IdosellClientMethods ==
    {"get_order_note", "set_order_note", "append_order_note_with_voucher"}

CallIdosell(method) ==
    IF method \in IdosellClientMethods
    THEN {"ok", "IdosellApiError"}
    ELSE {"AttributeError"}

\* ------------------------------------------------------- request records
NoResponse ==
    [status_code |-> 0, status |-> "none", assigned_codes |-> <<>>,
     reused |-> FALSE]

\* Mutant: every response carries the success status.
JSONResponseAlways200(status_code, status, codes) ==
    [status_code |-> 200, status |-> status, assigned_codes |-> codes,
     reused |-> FALSE]

JSONResponse(status_code, status, codes) ==
    [status_code |-> status_code, status |-> status, assigned_codes |-> codes,
     reused |-> FALSE]

\* What the caller gets: the handler's response, or a 500 when the audit
\* call before its return statement raised.
Answer(response, logged) ==
    IF logged.raised
    THEN [response EXCEPT !.status_code = 500, !.status = "error",
                          !.assigned_codes = <<>>]
    ELSE response

IdleInv ==
    [pc |-> "idle", handler |-> "none", order_id |-> NULL,
     order_serial |-> NULL,
     prepaids |-> <<>>, client_email |-> FALSE, gift_positions |-> <<>>, pos |-> 0,
     remaining |-> 0, gift_id |-> 0, assigned_codes |-> <<>>,
     response |-> NoResponse]

\* A request that has returned: what it was given, the codes it claimed and
\* its response stay readable until the slot serves the next request.
Returned(r, response) ==
    [r EXCEPT !.pc = "done", !.pos = 0, !.remaining = 0, !.gift_id = 0,
              !.response = response]

Free(p) == inv[p].pc \in {"idle", "done"}

\* What admin_add_codes was asked and the status it answered.
NoAddCall == [codes |-> <<>>, status_code |-> 0]

AddCall(codes, ok) ==
    [codes |-> codes, status_code |-> IF ok THEN 200 ELSE 500]

\* What an admin_manual_issue that claimed a code was asked and what it
\* answered.
NoManualCall == [order_serial |-> NULL, value |-> 0, response |-> NoResponse]

ManualCall(r) ==
    IF r.handler = "manual" /\ r.response.status_code = 200 /\ ~r.response.reused
    THEN [order_serial |-> r.order_serial, value |-> r.gift_positions[1].value,
          response |-> r.response]
    ELSE NoManualCall

\* The order a webhook that was processed served, and what it answered.
WebhookCall(r) ==
    IF r.handler = "webhook" /\ r.response.status = "processed"
    THEN [order_id |-> r.order_id, order_serial |-> r.order_serial, value |-> 0,
          response |-> r.response]
    ELSE NoManualCall

Pool ==
    /\ gift_codes = <<>>
    /\ webhook_events = [p \in Procs |-> <<>>]
    /\ inv = [p \in Procs |-> IdleInv]
    /\ session = [p \in Procs |-> {}]
    /\ emails = [p \in Procs |-> <<>>]
    /\ emails_total = [o \in Orders |-> 0]
    /\ note_updates = [p \in Procs |-> <<>>]
    /\ idosell_client \in BOOLEAN
    /\ requests = 0
    /\ before = <<>>
    /\ previous = NoManualCall
    /\ added = NoAddCall
    /\ exhausted = {}

\* The state after construction: nobody has called the Idosell client's
\* note methods, no payload is being classified on its own.
Tables ==
    /\ Pool
    /\ order_note = <<>>
    /\ appends = <<>>
    /\ note_history = <<>>
    /\ delivery = <<>>

\* The orders whose gift lines are of different denominations.
PlainOrders == {"S0", "S1", "S2"}

\* Requests served concurrently, one per worker slot.
Init ==
    Tables /\ workers = 2 /\ kept = "none" /\ audit_fails = FALSE
           /\ shop = PlainOrders

\* Requests served one after the other: a single worker slot.
InitSeq ==
    Tables /\ workers = 1 /\ kept = "requests" /\ audit_fails = FALSE
           /\ shop = PlainOrders

\* Requests served one after the other in a shop that has taken S3, whose
\* two gift lines are of the same denomination.
InitLines ==
    Tables /\ workers = 1 /\ kept = "requests" /\ audit_fails = FALSE
           /\ shop = {"S0", "S3"}

\* The same deployment, observed at its calls of admin_add_codes.
InitAdmin ==
    Tables /\ workers = 1 /\ kept = "admin" /\ audit_fails = FALSE
           /\ shop = PlainOrders

\* Requests served one after the other in a shop that has taken N1 and N2,
\* two orders whose payloads carry no orderSerialNumber.
InitOrders ==
    Tables /\ workers = 1 /\ kept = "orders" /\ audit_fails = FALSE
           /\ shop = {"S0", "N1", "N2"}

\* Requests served one after the other while INSERTs into webhook_events
\* may raise.
InitAudit ==
    Tables /\ workers = 1 /\ kept = "requests" /\ audit_fails = TRUE
           /\ shop = PlainOrders

\* The slot that takes the next request: the first free one, while the
\* deployment has requests left to serve.
Ready(p) ==
    /\ Free(p)
    /\ p <= workers
    /\ \A q \in Procs : q < p => ~Free(q)
    /\ requests < MaxRequests

\* A slot takes a request: one more request, a new session, and the rows
\* and calls of the slot's previous request leave the model.
Accept(p, rows) ==
    /\ Ready(p)
    /\ before' = IF kept \in {"requests", "orders"} THEN gift_codes ELSE before
    /\ previous' = CASE kept = "requests" -> ManualCall(inv[p])
                     [] kept = "orders" -> WebhookCall(inv[p])
                     [] OTHER -> previous
    /\ added' = NoAddCall
    /\ requests' = requests + 1
    /\ session' = [session EXCEPT ![p] = {}]
    /\ webhook_events' = [webhook_events EXCEPT ![p] = rows]
    /\ emails' = [emails EXCEPT ![p] = <<>>]
    /\ note_updates' = [note_updates EXCEPT ![p] = <<>>]

\* ------------------------------------------------- idosell_order_webhook
\* No recognizable order envelope: audit "bad_request", HTTP 400.
WebhookNoOrder(p) ==
    /\ Ready(p)
    /\ \E payload \in Delivered, ok \in AuditOutcomes :
        LET logged == log_webhook_event(<<>>, ok, "bad_request", "no_order", 0,
                                        NULL)
        IN  /\ ~payload.envelope
            /\ Accept(p, logged.events)
            /\ inv' = [inv EXCEPT ![p] =
                 Returned([IdleInv EXCEPT !.handler = "webhook"],
                          Answer(JSONResponse(400, "ignored", <<>>), logged))]
    /\ UNCHANGED <<gift_codes, emails_total, idosell_client, workers, shop, order_note, appends, note_history, delivery, kept, audit_fails,
                   exhausted>>

\* The order is not paid: audit "ignored_unpaid", HTTP 200.
WebhookUnpaid(p) ==
    /\ Ready(p)
    /\ \E payload \in Delivered, ok \in AuditOutcomes :
        LET logged == log_webhook_event(<<>>, ok, "ignored_unpaid", "unpaid", 0,
                                        payload.orderSerialNumber)
        IN  /\ payload.envelope
            /\ ~_is_order_paid(payload.prepaids)
            /\ Accept(p, logged.events)
            /\ inv' = [inv EXCEPT ![p] =
                 Returned([IdleInv EXCEPT !.handler = "webhook",
                                          !.order_id = payload.orderId,
                                          !.order_serial = payload.orderSerialNumber,
                                          !.prepaids = payload.prepaids,
                                          !.client_email = payload.email],
                          Answer(JSONResponse(200, "ignored", <<>>), logged))]
    /\ UNCHANGED <<gift_codes, emails_total, idosell_client, workers, shop, order_note, appends, note_history, delivery, kept, audit_fails,
                   exhausted>>

\* A paid order without gift-card lines: audit "ignored_no_giftcards", HTTP 200.
WebhookNoGiftcards(p) ==
    /\ Ready(p)
    /\ \E payload \in Delivered, ok \in AuditOutcomes :
        LET logged == log_webhook_event(<<>>, ok, "ignored_no_giftcards",
                                        "no_giftcards", 0,
                                        payload.orderSerialNumber)
        IN  /\ payload.envelope
            /\ _is_order_paid(payload.prepaids)
            /\ GiftPositions[payload] = <<>>
            /\ Accept(p, logged.events)
            /\ inv' = [inv EXCEPT ![p] =
                 Returned([IdleInv EXCEPT !.handler = "webhook",
                                          !.order_id = payload.orderId,
                                          !.order_serial = payload.orderSerialNumber,
                                          !.prepaids = payload.prepaids,
                                          !.client_email = payload.email],
                          Answer(JSONResponse(200, "ok", <<>>), logged))]
    /\ UNCHANGED <<gift_codes, emails_total, idosell_client, workers, shop, order_note, appends, note_history, delivery, kept, audit_fails,
                   exhausted>>

\* A paid order with gift-card lines: the session opens and the loop over
\* gift_positions starts at its first position.
WebhookBegin(p) ==
    /\ Ready(p)
    /\ \E payload \in Delivered :
        /\ payload.envelope
        /\ _is_order_paid(payload.prepaids)
        /\ GiftPositions[payload] # <<>>
        /\ Accept(p, <<>>)
        /\ inv' = [inv EXCEPT ![p] =
             [IdleInv EXCEPT !.pc = "count", !.handler = "webhook",
                             !.order_id = payload.orderId,
                             !.order_serial = payload.orderSerialNumber,
                             !.prepaids = payload.prepaids,
                             !.client_email = payload.email,
                             !.gift_positions = GiftPositions[payload],
                             !.pos = 1]]
    /\ UNCHANGED <<gift_codes, emails_total, idosell_client, workers, shop, order_note, appends, note_history, delivery, kept, audit_fails,
                   exhausted>>

\* The loop moves to the next position, or leaves the loop for db.commit().
NextPosition(r) ==
    IF r.pos < Len(r.gift_positions)
    THEN [r EXCEPT !.pc = "count", !.pos = r.pos + 1, !.remaining = 0,
                   !.gift_id = 0]
    ELSE [r EXCEPT !.pc = "commit", !.pos = 0, !.remaining = 0, !.gift_id = 0]

\* Mutant: the shortfall forgets the codes the order already holds.
RemainingIgnoresExisting(quantity, existing_count) == quantity

\* remaining = quantity - existing_count
Remaining(quantity, existing_count) == quantity - existing_count

\* The COUNT of the codes the order already holds of the position's value;
\* a position with nothing remaining is skipped.
WebhookCount(p) ==
    /\ inv[p].pc = "count"
    /\ LET r == inv[p]
           position == r.gift_positions[r.pos]
           existing_count == ExistingCount(p, Str(r.order_serial), position.value)
           remaining == Remaining(position.quantity, existing_count)
       IN  inv' = [inv EXCEPT ![p] =
              IF remaining <= 0
              THEN NextPosition(r)
              ELSE [r EXCEPT !.pc = "select", !.remaining = remaining]]
    /\ UNCHANGED <<gift_codes, webhook_events, session, emails, emails_total,
                   note_updates, idosell_client, requests, workers, shop, order_note, appends, note_history, delivery, kept, audit_fails, before, previous, added,
                   exhausted>>

\* The SELECT of assign_unused_gift_code found a row.
WebhookSelect(p) ==
    /\ inv[p].pc = "select"
    /\ LET r == inv[p]
           id == SelectUnused(p, r.gift_positions[r.pos].value)
       IN  /\ id # 0
           /\ inv' = [inv EXCEPT ![p] = [r EXCEPT !.pc = "update", !.gift_id = id]]
    /\ UNCHANGED <<gift_codes, webhook_events, session, emails, emails_total,
                   note_updates, idosell_client, requests, workers, shop, order_note, appends, note_history, delivery, kept, audit_fails, before, previous, added,
                   exhausted>>

\* What the "if not code_obj" branch leaves in webhook_events: it audits
\* "error" and raises HTTPException(500), which the handler's own
\* "except Exception" catches, audits "error" again and re-raises.
PoolExhaustedAudit(events, ok1, ok2, value, order_serial) ==
    log_webhook_event(
        log_webhook_event(events, ok1, "error", "Brak kodow", value,
                          order_serial).events,
        ok2, "error", "Blad przydzielania kodow", value, order_serial).events

\* Mutant: a rollback that lets the session's UPDATEs reach the table.
RollbackKeepsUpdates(p) == Visible(p)

\* db.rollback(): the session's uncommitted UPDATEs are dropped, the
\* committed table is what it was.
Rollback(p) == gift_codes

\* The order holds no committed code.
HoldsNothing(order_id) ==
    \A i \in DOMAIN gift_codes : gift_codes[i].order_id # order_id

\* The SELECT found no row: rollback, audit, HTTP 500.
WebhookPoolExhausted(p) ==
    /\ inv[p].pc = "select"
    /\ LET r == inv[p]
           value == r.gift_positions[r.pos].value
       IN  /\ SelectUnused(p, value) = 0
           /\ \E ok1, ok2 \in AuditOutcomes :
                webhook_events' = [webhook_events EXCEPT ![p] =
                    PoolExhaustedAudit(webhook_events[p], ok1, ok2, value,
                                       r.order_serial)]
           /\ inv' = [inv EXCEPT ![p] =
                Returned(r, JSONResponse(500, "error", <<>>))]
    /\ gift_codes' = Rollback(p)
    /\ session' = [session EXCEPT ![p] = {}]
    /\ exhausted' = IF HoldsNothing(Str(inv[p].order_serial))
                    THEN exhausted \cup {inv[p].order_serial}
                    ELSE exhausted \ {inv[p].order_serial}
    /\ UNCHANGED <<emails, emails_total, note_updates, idosell_client,
                   requests, workers, shop, order_note, appends, note_history, delivery, kept, audit_fails, before, previous, added>>

\* The UPDATE of assign_unused_gift_code (it waits while another session
\* holds the row), db.get of the row, and assigned_codes.append.
WebhookUpdate(p) ==
    /\ inv[p].pc = "update"
    /\ ~LockedByOther(p, inv[p].gift_id)
    /\ LET r == inv[p]
           code_obj == gift_codes[r.gift_id]
           claimed == [r EXCEPT !.assigned_codes =
                          Append(r.assigned_codes,
                                 [code |-> code_obj.code, value |-> code_obj.value])]
       IN  inv' = [inv EXCEPT ![p] =
              IF r.remaining > 1
              THEN [claimed EXCEPT !.pc = "select", !.remaining = r.remaining - 1,
                                   !.gift_id = 0]
              ELSE NextPosition(claimed)]
    /\ session' = [session EXCEPT ![p] = session[p] \cup {inv[p].gift_id}]
    /\ UNCHANGED <<gift_codes, webhook_events, emails, emails_total,
                   note_updates, idosell_client, requests, workers, shop, order_note, appends, note_history, delivery, kept, audit_fails, before, previous, added,
                   exhausted>>

\* A statement of the allocation (the COUNT, the SELECT, the UPDATE or the
\* commit) raises a database error: the handler's "except Exception" rolls
\* back, audits "error" once and re-raises, which answers 500.
WebhookAllocationError(p) ==
    /\ inv[p].pc \in {"count", "select", "update", "commit"}
    /\ \E ok \in AuditOutcomes :
         webhook_events' = [webhook_events EXCEPT ![p] =
             log_webhook_event(webhook_events[p], ok, "error",
                               "Blad przydzielania kodow", 0,
                               inv[p].order_serial).events]
    /\ inv' = [inv EXCEPT ![p] =
         Returned(inv[p], JSONResponse(500, "error", <<>>))]
    /\ gift_codes' = Rollback(p)
    /\ session' = [session EXCEPT ![p] = {}]
    /\ UNCHANGED <<emails, emails_total, note_updates, idosell_client,
                   requests, workers, shop, order_note, appends, note_history, delivery, kept, audit_fails, before, previous, added, exhausted>>

\* db.commit() after the loop.
WebhookCommit(p) ==
    /\ inv[p].pc = "commit"
    /\ gift_codes' = Committed(p)
    /\ session' = [session EXCEPT ![p] = {}]
    /\ inv' = [inv EXCEPT ![p].pc = "notify"]
    /\ UNCHANGED <<webhook_events, emails, emails_total, note_updates,
                   idosell_client, requests, workers, shop, order_note, appends, note_history, delivery, kept, audit_fails, before, previous, added,
                   exhausted>>

\* Mutant: the email step runs whether or not an address is known.
EmailStepIgnoresAddress(client_email, assigned_codes) == assigned_codes # <<>>

\* Mutant: the email step runs whether or not codes were claimed.
EmailStepIgnoresCodes(client_email, assigned_codes) == client_email

\* "if client_email and assigned_codes"
EmailStep(client_email, assigned_codes) ==
    client_email /\ assigned_codes # <<>>

\* Mutant: the note step runs without a configured client.
NoteStepIgnoresClient(assigned_codes, order_serial, client) ==
    assigned_codes # <<>> /\ order_serial # NULL

\* "if assigned_codes and order_serial and idosell_client"
NoteStep(assigned_codes, order_serial, client) ==
    assigned_codes # <<>> /\ order_serial # NULL /\ client

Call(order_serial, codes, outcome) ==
    [order_serial |-> order_serial, codes |-> codes, outcome |-> outcome]

\* The PDF files the webhook renders and hands to send_giftcard_email: the
\* handler never calls generate_giftcard_pdf and passes no pdf_files.
WebhookPdfFiles(assigned_codes) == 0

\* A call of send_giftcard_email with the number of its attachments.
EmailCall(order_serial, codes, outcome, pdf_files) ==
    [order_serial |-> order_serial, codes |-> codes, outcome |-> outcome,
     pdf_files |-> pdf_files]

\* After the commit: the email step, the order-note step, the audit row
\* "processed" and the response.
WebhookNotify(p) ==
    /\ inv[p].pc = "notify"
    /\ LET r == inv[p]
       IN  /\ IF EmailStep(r.client_email, r.assigned_codes)
              THEN \E outcome \in send_giftcard_email(WebhookEmailKeywords) :
                      /\ emails' = [emails EXCEPT ![p] =
                            Append(emails[p],
                                   EmailCall(r.order_serial, r.assigned_codes,
                                             outcome,
                                             WebhookPdfFiles(r.assigned_codes)))]
                      /\ emails_total' =
                            [emails_total EXCEPT ![r.order_id] = @ + 1]
              ELSE UNCHANGED <<emails, emails_total>>
           /\ IF NoteStep(r.assigned_codes, r.order_serial, idosell_client)
              THEN \E outcome \in CallIdosell("update_order_note") :
                      note_updates' = [note_updates EXCEPT ![p] =
                            Append(note_updates[p],
                                   Call(r.order_serial, r.assigned_codes, outcome))]
              ELSE UNCHANGED note_updates
           /\ \E ok \in AuditOutcomes :
                LET logged == log_webhook_event(webhook_events[p], ok,
                                  "processed", "Przydzielono",
                                  Len(r.assigned_codes), r.order_serial)
                IN  /\ webhook_events' =
                          [webhook_events EXCEPT ![p] = logged.events]
                    /\ inv' = [inv EXCEPT ![p] =
                          Returned(r, Answer(JSONResponse(200, "processed",
                                                          r.assigned_codes),
                                             logged))]
    /\ exhausted' = exhausted \ {inv[p].order_serial}
    /\ UNCHANGED <<gift_codes, session, idosell_client, requests, workers, shop, order_note, appends, note_history, delivery, kept, audit_fails,
                   before, previous, added>>

\* ------------------------------------------------------- admin_add_codes
\* INSERT INTO gift_codes (code, value, order_id) VALUES (:code, :value, NULL)
\* for each code of the batch; the unique index on gift_codes.code makes the
\* INSERT of a code that exists raise IntegrityError.
RECURSIVE InsertCodes(_, _, _)
InsertCodes(rows, value, codes) ==
    IF codes = <<>> THEN [ok |-> TRUE, rows |-> rows]
    ELSE IF \E i \in DOMAIN rows : rows[i].code = Head(codes)
         THEN [ok |-> FALSE, rows |-> rows]
         ELSE InsertCodes(Append(rows, [code |-> Head(codes), value |-> value,
                                        order_id |-> NULL]),
                          value, Tail(codes))

\* The batches tried: fresh codes are named by the next free numbers, and a
\* batch may repeat a code or name the oldest code of the table.
Batches ==
    LET n == Len(gift_codes)
    IN  {<<n + 1>>, <<n + 1, n + 2>>, <<n + 1, n + 1>>, <<n + 1, 1>>}

\* One transaction for the whole batch: commit, or rollback and a 500 when
\* an INSERT raised.
AdminAddCodes ==
    \E value \in Denominations, codes \in Batches :
        LET done == InsertCodes(gift_codes, value, codes)
        IN  /\ workers = 1 => Free(1)
            /\ Len(done.rows) <= MaxCodes
            /\ gift_codes' = IF done.ok THEN done.rows ELSE gift_codes
            /\ added' = IF kept = "admin"
                        THEN AddCall(codes, done.ok)
                        ELSE added
            /\ UNCHANGED <<webhook_events, inv, session, emails, emails_total,
                           note_updates, idosell_client, requests, workers, shop, order_note, appends, note_history, delivery, kept, audit_fails,
                           before, previous, exhausted>>

\* ---------------------------------------------------- admin_manual_issue
\* Mutant: the lookup returns the order's newest code.
ExistingCodeNewest(order_id) ==
    LET held == {i \in DOMAIN gift_codes : gift_codes[i].order_id = order_id}
    IN  IF held = {} THEN 0 ELSE CHOOSE i \in held : \A j \in held : j <= i

\* Mutant: the lookup of a code of the order finds nothing.
ExistingCodeNone(order_id) == 0

\* SELECT id, code, value, order_id FROM gift_codes WHERE order_id = :order_id
\* ORDER BY id ASC LIMIT 1; 0 stands for "no row".
ExistingCode(order_id) ==
    LET held == {i \in DOMAIN gift_codes : gift_codes[i].order_id = order_id}
    IN  IF held = {} THEN 0 ELSE Min(held)

\* Mutant: the endpoint answers 200 whatever happened.
ManualResponseAlwaysOk(status_code, status, codes, reused) ==
    [status_code |-> 200, status |-> "ok", assigned_codes |-> codes,
     reused |-> reused]

ManualResponse(status_code, status, codes, reused) ==
    [status_code |-> status_code, status |-> status, assigned_codes |-> codes,
     reused |-> reused]

\* The request arrives and the lookup of a code already assigned to the
\* order runs: a hit is returned with reused = True.
ManualIssueBegin(p) ==
    /\ Ready(p)
    /\ \E value \in Denominations,
          order_serial \in {OrderSerial(o) : o \in shop} \ {NULL} :
        LET r == [IdleInv EXCEPT !.handler = "manual",
                                 !.order_serial = order_serial,
                                 !.gift_positions =
                                    <<[value |-> value, quantity |-> 1]>>,
                                 !.pos = 1]
            existing == ExistingCode(order_serial)
        IN  inv' = [inv EXCEPT ![p] =
               IF existing # 0
               THEN Returned(r, ManualResponse(200, "ok",
                        <<[code |-> gift_codes[existing].code,
                           value |-> gift_codes[existing].value]>>, TRUE))
               ELSE [r EXCEPT !.pc = "m_select"]]
    /\ Accept(p, <<>>)
    /\ UNCHANGED <<gift_codes, emails_total, idosell_client, workers, shop, order_note, appends, note_history, delivery, kept, audit_fails,
                   exhausted>>

\* The SELECT of assign_unused_gift_code found a row.
ManualIssueSelect(p) ==
    /\ inv[p].pc = "m_select"
    /\ LET r == inv[p]
           id == SelectUnused(p, r.gift_positions[1].value)
       IN  /\ id # 0
           /\ inv' = [inv EXCEPT ![p] = [r EXCEPT !.pc = "m_update", !.gift_id = id]]
    /\ UNCHANGED <<gift_codes, webhook_events, session, emails, emails_total,
                   note_updates, idosell_client, requests, workers, shop, order_note, appends, note_history, delivery, kept, audit_fails, before, previous, added,
                   exhausted>>

\* The SELECT found no row: HTTPException(409), db.rollback().
ManualIssueNoCode(p) ==
    /\ inv[p].pc = "m_select"
    /\ SelectUnused(p, inv[p].gift_positions[1].value) = 0
    /\ inv' = [inv EXCEPT ![p] =
         Returned(inv[p], ManualResponse(409, "error", <<>>, FALSE))]
    /\ gift_codes' = Rollback(p)
    /\ session' = [session EXCEPT ![p] = {}]
    /\ UNCHANGED <<webhook_events, emails, emails_total, note_updates,
                   idosell_client, requests, workers, shop, order_note, appends, note_history, delivery, kept, audit_fails, before, previous, added, exhausted>>

\* The UPDATE of assign_unused_gift_code and db.get of the row.
ManualIssueUpdate(p) ==
    /\ inv[p].pc = "m_update"
    /\ ~LockedByOther(p, inv[p].gift_id)
    /\ LET r == inv[p]
           code_obj == gift_codes[r.gift_id]
       IN  inv' = [inv EXCEPT ![p] =
              [r EXCEPT !.pc = "m_commit", !.gift_id = 0,
                        !.assigned_codes =
                           <<[code |-> code_obj.code, value |-> code_obj.value]>>]]
    /\ session' = [session EXCEPT ![p] = session[p] \cup {inv[p].gift_id}]
    /\ UNCHANGED <<gift_codes, webhook_events, emails, emails_total,
                   note_updates, idosell_client, requests, workers, shop, order_note, appends, note_history, delivery, kept, audit_fails, before, previous, added,
                   exhausted>>

\* db.commit(), then the order note when a client is configured, the audit
\* row "admin_manual_issue" and the response with reused = False.
ManualIssueCommit(p) ==
    /\ inv[p].pc = "m_commit"
    /\ gift_codes' = Committed(p)
    /\ session' = [session EXCEPT ![p] = {}]
    /\ LET r == inv[p]
       IN  /\ IF idosell_client
              THEN \E outcome \in CallIdosell("update_order_note") :
                      note_updates' = [note_updates EXCEPT ![p] =
                            Append(note_updates[p],
                                   Call(r.order_serial, r.assigned_codes, outcome))]
              ELSE UNCHANGED note_updates
           /\ \E ok \in AuditOutcomes :
                webhook_events' = [webhook_events EXCEPT ![p] =
                    log_webhook_event(webhook_events[p], ok,
                                      "admin_manual_issue",
                                      "Reczne przypisanie kodu",
                                      r.assigned_codes[1].code,
                                      r.order_serial).events]
           /\ inv' = [inv EXCEPT ![p] =
                Returned(r, ManualResponse(200, "ok", r.assigned_codes, FALSE))]
    /\ exhausted' = exhausted \ {inv[p].order_serial}
    /\ UNCHANGED <<emails, emails_total, idosell_client, requests, workers, shop, order_note, appends, note_history, delivery, kept, audit_fails,
                   before, previous, added>>

\* -------------------------------------------------------- specifications
Webhook(p) ==
    \/ WebhookNoOrder(p)
    \/ WebhookUnpaid(p)
    \/ WebhookNoGiftcards(p)
    \/ WebhookBegin(p)
    \/ WebhookCount(p)
    \/ WebhookSelect(p)
    \/ WebhookPoolExhausted(p)
    \/ WebhookUpdate(p)
    \/ WebhookAllocationError(p)
    \/ WebhookCommit(p)
    \/ WebhookNotify(p)

ManualIssue(p) ==
    \/ ManualIssueBegin(p)
    \/ ManualIssueSelect(p)
    \/ ManualIssueNoCode(p)
    \/ ManualIssueUpdate(p)
    \/ ManualIssueCommit(p)

Next ==
    \/ \E p \in Procs : Webhook(p)
    \/ \E p \in Procs : ManualIssue(p)
    \/ AdminAddCodes

Spec == Init /\ [][Next]_vars

SeqSpec == InitSeq /\ [][Next]_vars

AdminSpec == InitAdmin /\ [][Next]_vars

AuditSpec == InitAudit /\ [][Next]_vars

LinesSpec == InitLines /\ [][Next]_vars

OrdersSpec == InitOrders /\ [][Next]_vars

\* ---------------------------------- IdosellClient: the order note methods
\* A note is the sequence of its lines; a line is a pair <<label, rest>>, and
\* <<"", "">> is a line of white space only. get_order_note returns None
\* for an order without a note, which append_order_note_with_voucher reads
\* as "": both are the empty sequence here.
BlankLine == <<"", "">>

NoteText == <<"Prosze o fakture", "">>

\* The notes the order may hold before the first call: none, a text, a text
\* followed by white space, white space only.
OriginalNotes == {<<>>, <<NoteText>>, <<NoteText, BlankLine>>, <<BlankLine>>}

\* Threads (or processes) that call the client at the same time.
Callers == {1, 2}

\* The voucher codes appended, one per call.
VoucherCodes == <<"AAA", "BBB", "CCC", "DDD">>

PdfUrls == {"", "https://pdf"}

\* f"{value:.2f} {currency}", for the denominations of the pool in PLN.
FormatValue(value, currency) ==
    IF value = 100 THEN "100.00 PLN" ELSE "200.00 PLN"

\* voucher_lines, joined by "\n".
VoucherBlock(voucher_code, value, currency, pdf_url) ==
    <<  <<"KARTA PODARUNKOWA:", "">>,
        <<"Kod", voucher_code>>,
        <<"Wartosc", FormatValue(value, currency)>>  >>
    \o (IF pdf_url # "" THEN << <<"Link do PDF", pdf_url>> >> ELSE <<>>)

\* existing.strip() is empty.
IsBlank(note) == \A i \in DOMAIN note : note[i] = BlankLine

\* existing.rstrip()
RECURSIVE RStrip(_)
RStrip(note) ==
    IF note = <<>> THEN <<>>
    ELSE IF note[Len(note)] = BlankLine
         THEN RStrip(SubSeq(note, 1, Len(note) - 1))
         ELSE note

\* "\n\n---\n" between the note and the block: an empty line and the rule.
Separator == <<BlankLine, <<"---", "">> >>

\* new_note of append_order_note_with_voucher.
NewNote(existing, voucher_block) ==
    IF ~IsBlank(existing)
    THEN RStrip(existing) \o Separator \o voucher_block
    ELSE voucher_block

IdleAppend == [pc |-> "idle", existing |-> <<>>, voucher_block |-> <<>>]

NoHistory == [original |-> <<>>, started |-> 0, returned |-> {}]

\* The outcomes of an HTTP call to Idosell.
HttpOutcomes == {"ok", "error"}

\* A caller enters append_order_note_with_voucher: get_order_note reads the
\* note, or raises (raise_for_status) and the call ends.
AppendGetOrderNote(c) ==
    /\ appends[c].pc # "got"
    /\ note_history.started < MaxAppends
    /\ \E value \in Denominations, pdf_url \in PdfUrls, outcome \in HttpOutcomes :
         appends' = [appends EXCEPT ![c] =
            IF outcome = "ok"
            THEN [pc |-> "got", existing |-> order_note,
                  voucher_block |->
                     VoucherBlock(VoucherCodes[note_history.started + 1],
                                  value, "PLN", pdf_url)]
            ELSE [IdleAppend EXCEPT !.pc = "raised"]]
    /\ note_history' = [note_history EXCEPT !.started = @ + 1]
    /\ UNCHANGED <<order_note, delivery, main_vars>>

\* set_order_note writes new_note, or Idosell refuses (a status other than
\* 200 and 207, a faultCode) and IdosellApiError is raised.
AppendSetOrderNote(c) ==
    /\ appends[c].pc = "got"
    /\ \E outcome \in HttpOutcomes :
         IF outcome = "ok"
         THEN /\ order_note' = NewNote(appends[c].existing,
                                       appends[c].voucher_block)
              /\ appends' = [appends EXCEPT ![c].pc = "returned"]
              /\ note_history' = [note_history EXCEPT !.returned =
                                    @ \cup {appends[c].voucher_block}]
         ELSE /\ appends' = [appends EXCEPT ![c].pc = "raised"]
              /\ UNCHANGED <<order_note, note_history>>
    /\ UNCHANGED <<delivery, main_vars>>

InitNote ==
    /\ Pool /\ workers = 1 /\ kept = "none" /\ audit_fails = FALSE
    /\ shop = PlainOrders
    /\ idosell_client = TRUE
    /\ order_note \in OriginalNotes
    /\ appends = [c \in Callers |-> IdleAppend]
    /\ note_history = [NoHistory EXCEPT !.original = order_note]
    /\ delivery = <<>>

NoteNext == \E c \in Callers : AppendGetOrderNote(c) \/ AppendSetOrderNote(c)

NoteSpec == InitNote /\ [][NoteNext]_vars

\* --------------------------------- idosell_order_webhook: classification
\* What the handler does with a payload before it opens a session: it picks
\* the order envelope, tests the payment and extracts the gift lines.

\* What a key of the payload may hold where an object is looked for, and
\* where a list whose first element is an object is looked for.
ObjectKinds == {"absent", "other", "dict"}

ListKinds == {"absent", "other", "empty", "first_other", "first_dict"}

\* The product lines tried: the gift card with a label, other products, a
\* gift card without a denomination, the denomination in productName, in
\* digits only, in sizeName; productId as a numeral, as another string,
\* null; and the quantity missing, zero, negative, as a numeral, as another
\* string, under the key "quantity".
GiftLine == Item(GIFT_PRODUCT_ID, "100 zl", 1)

ProductLines ==
    { Item(GIFT_PRODUCT_ID, "200 zl", 2),
      Item(OTHER_PRODUCT_ID, "200 zl", 1),
      Item(GIFT_PRODUCT_ID, "M", 1),
      [Item(GIFT_PRODUCT_ID, "", 1) EXCEPT
            !.productName = "Karta 100 zl"],
      Item(GIFT_PRODUCT_ID, "200zl", 1),
      Item(GIFT_PRODUCT_ID, "200zl x2", 1),
      [Item(GIFT_PRODUCT_ID, "", 1) EXCEPT !.sizeName = "250"],
      [GiftLine EXCEPT !.productId = JStr("14409")],
      [GiftLine EXCEPT !.productId = JStr("abc")],
      [GiftLine EXCEPT !.productId = JNull],
      [GiftLine EXCEPT !.productQuantity = JNull],
      [GiftLine EXCEPT !.productQuantity = JInt(0)],
      [GiftLine EXCEPT !.productQuantity = JInt(0 - 1)],
      [GiftLine EXCEPT !.productQuantity = JStr("2")],
      [GiftLine EXCEPT !.productQuantity = JStr("0")],
      [GiftLine EXCEPT !.productQuantity = JStr("abc")],
      [GiftLine EXCEPT !.productQuantity = JNull, !.quantity = JInt(2)] }

ProductLists ==
    UNION {[1..n -> ProductLines] : n \in 0..MaxLines}

PrepaidLists == {<<>>, <<"n">>, <<"y">>, <<"n", "y">>, <<"y", "n">>, <<"n", "n">>}

\* orderDetails of an order object.
OrderDetails(prepaids, productsResults, basket) ==
    [prepaids |-> prepaids, productsResults |-> productsResults,
     basket |-> basket]

\* The payload of the specification's first scenario: a paid order with
\* one gift line of 200, twice.
ExampleDetails ==
    OrderDetails(<<"y">>, <<Item(GIFT_PRODUCT_ID, "200 zl", 2)>>, <<>>)

\* A payload: what its keys "order", "orders" and "Results" hold, whether
\* it carries orderId and orderSerialNumber itself, and the orderDetails
\* every order object in it has. A payload that is no JSON object has no
\* key at all.
Envelope(is_object, order, orders, results, order_id, serial, details) ==
    [is_object |-> is_object, order |-> order, orders |-> orders,
     Results |-> results, orderId |-> order_id, orderSerialNumber |-> serial,
     orderDetails |-> details]

EnvelopePayloads ==
    {Envelope(TRUE, order, orders, results, order_id, serial, ExampleDetails) :
        order \in ObjectKinds, orders \in ListKinds, results \in ListKinds,
        order_id \in BOOLEAN, serial \in BOOLEAN}
    \cup {Envelope(FALSE, "absent", "absent", "absent", FALSE, FALSE,
                   ExampleDetails)}

DetailPayloads ==
    {Envelope(TRUE, "dict", "absent", "absent", FALSE, FALSE,
              OrderDetails(prepaids, products, basket)) :
        prepaids \in PrepaidLists, products \in ProductLists,
        basket \in {<<>>, <<GiftLine>>}}

\* The order object the handler works on, named by the shape that gave it:
\* "order", "orders", "Results", "flat", or "none" (lines 231-243).
SelectOrder(payload) ==
    IF ~payload.is_object THEN "none"
    ELSE IF payload.order = "dict" THEN "order"
    ELSE IF payload.orders \in {"first_other", "first_dict"}
         THEN (IF payload.orders = "first_dict" THEN "orders" ELSE "none")
    ELSE IF payload.Results \in {"first_other", "first_dict"}
         THEN (IF payload.Results = "first_dict" THEN "Results" ELSE "none")
    ELSE IF payload.orderId /\ payload.orderSerialNumber THEN "flat"
    ELSE "none"

\* products of _extract_giftcard_positions: productsResults, or basket when
\* that is empty (the key "products", read after "basket", is left out).
Products(order_details) ==
    IF order_details.productsResults # <<>>
    THEN order_details.productsResults
    ELSE order_details.basket

NotClassified ==
    [shape |-> "none", status_code |-> 0, status |-> "none", reason |-> "none",
     gift_positions |-> <<>>]

Classified(shape, status_code, status, reason, gift_positions) ==
    [shape |-> shape, status_code |-> status_code, status |-> status,
     reason |-> reason, gift_positions |-> gift_positions]

\* The handler up to the allocation: the 400 of a payload without order,
\* the two "ignored" answers, the 500 of an exception that leaves
\* _extract_giftcard_positions, or the gift lines handed to the allocation.
Classify(payload) ==
    LET shape == SelectOrder(payload)
        products == Products(payload.orderDetails)
    IN  IF shape = "none"
        THEN Classified(shape, 400, "ignored", "no_order", <<>>)
        ELSE IF ~_is_order_paid(payload.orderDetails.prepaids)
        THEN Classified(shape, 200, "ignored", "unpaid", <<>>)
        ELSE IF ExtractRaises(products)
        THEN Classified(shape, 500, "error", "ValueError", <<>>)
        ELSE IF _extract_giftcard_positions(products) = <<>>
        THEN Classified(shape, 200, "ok", "no_giftcards", <<>>)
        ELSE Classified(shape, 0, "allocating", "none",
                        _extract_giftcard_positions(products))

\* A payload arrives and is classified.
WebhookClassify ==
    /\ delivery.pc = "received"
    /\ delivery' = [delivery EXCEPT !.pc = "classified",
                                    !.outcome = Classify(delivery.payload)]
    /\ UNCHANGED <<order_note, appends, note_history, main_vars>>

InitClassify ==
    /\ Pool /\ workers = 1 /\ kept = "none" /\ audit_fails = FALSE
    /\ shop = PlainOrders
    /\ idosell_client = FALSE
    /\ order_note = <<>>
    /\ appends = <<>>
    /\ note_history = <<>>
    /\ \E payload \in EnvelopePayloads \cup DetailPayloads :
         delivery = [pc |-> "received", payload |-> payload,
                     outcome |-> NotClassified]

ClassifyNext == WebhookClassify

ClassifySpec == InitClassify /\ [][ClassifyNext]_vars

\* ================================================================ claims
\* Number of rows of a table with the given order_id and value.
CountAssigned(rows, order_id, value) ==
    Cardinality({i \in DOMAIN rows :
                    rows[i].order_id = order_id /\ rows[i].value = value})

GiftLines(o) == OrderGiftLines[o]

\* The codes of a list of {code, value} entries.
CodesOf(entries) == {entries[i].code : i \in DOMAIN entries}

\* The request of slot p has returned from idosell_order_webhook.
WebhookDone(p) == inv[p].pc = "done" /\ inv[p].handler = "webhook"

\* ... and it answered "processed".
Processed(p) == WebhookDone(p) /\ inv[p].response.status = "processed"

\* C1: with deliveries served one after the other, an order with a single
\* gift line (D, N) never holds more than N codes of D, and holds exactly N
\* whenever a delivery of its webhook has been processed, the first one as
\* well as any redelivery.
C1_ExactlyN ==
    \A o \in Orders :
        Len(GiftLines(o)) = 1 =>
            LET line == GiftLines(o)[1]
                held == CountAssigned(gift_codes, o, line.value)
            IN  /\ held <= line.quantity
                /\ \A p \in Procs :
                      Processed(p) /\ inv[p].order_serial = o =>
                          held = line.quantity

\* A redelivery for S1, which holds its two codes, has been processed and
\* claimed nothing.
C1_Witness ==
    /\ Processed(1)
    /\ inv[1].order_serial = "S1"
    /\ inv[1].response.assigned_codes = <<>>
    /\ CountAssigned(before, "S1", 100) = 2
    /\ CountAssigned(gift_codes, "S1", 100) = 2

\* C2: two webhooks for different orders that ran at the same time and were
\* both processed report disjoint sets of codes.
C2_DisjointClaims ==
    \A p, q \in Procs :
        (/\ p # q
         /\ Processed(p)
         /\ Processed(q)
         /\ inv[p].order_serial # inv[q].order_serial)
        => CodesOf(inv[p].response.assigned_codes)
             \cap CodesOf(inv[q].response.assigned_codes) = {}

\* C3: after two deliveries of the same order's webhook that ran at the same
\* time were both processed, the order holds exactly the quantity of each of
\* its gift lines.
C3_NoDoubleAllocation ==
    \A p, q \in Procs :
        (/\ p # q
         /\ Processed(p)
         /\ Processed(q)
         /\ inv[p].order_serial = inv[q].order_serial)
        => \A i \in DOMAIN GiftLines(inv[p].order_serial) :
              LET line == GiftLines(inv[p].order_serial)[i]
              IN  CountAssigned(gift_codes, inv[p].order_serial, line.value)
                     = line.quantity

\* C4: a committed row whose order_id is not null keeps its order_id and its
\* value in every later step.
C4_AssignedRowsFrozen ==
    [][\A i \in DOMAIN gift_codes :
          gift_codes[i].order_id # NULL =>
              /\ gift_codes'[i].order_id = gift_codes[i].order_id
              /\ gift_codes'[i].value = gift_codes[i].value]_vars

\* The webhook of slot p has failed on an empty pool.
PoolExhausted(p) ==
    /\ WebhookDone(p)
    /\ inv[p].response.status_code = 500
    /\ webhook_events[p] # <<>>
    /\ webhook_events[p][1].message[1] = "Brak kodow"

\* C5: after a webhook served alone has failed on an empty pool, the order
\* holds of every denomination of its gift lines as many codes as it held
\* when the webhook started: what the batch had claimed is rolled back.
C5_ExhaustionAllOrNothing ==
    \A p \in Procs :
        PoolExhausted(p) =>
            \A i \in DOMAIN inv[p].gift_positions :
                LET value == inv[p].gift_positions[i].value
                IN  CountAssigned(gift_codes, inv[p].order_serial, value)
                      = CountAssigned(before, inv[p].order_serial, value)

\* The webhook of S1 (two codes of 100) claimed the one code of the pool and
\* then met the empty pool.
C5_Witness ==
    /\ PoolExhausted(1)
    /\ inv[1].order_serial = "S1"
    /\ Len(inv[1].assigned_codes) = 1
    /\ CountAssigned(gift_codes, "S1", 100) = 0

\* C6: after a webhook served alone has failed on an empty pool, the table
\* is row for row what it was when the webhook started; rows added since are
\* unused.
C6_TableUnchanged ==
    \A p \in Procs :
        PoolExhausted(p) =>
            /\ Len(gift_codes) >= Len(before)
            /\ \A i \in DOMAIN gift_codes :
                  IF i <= Len(before)
                  THEN gift_codes[i] = before[i]
                  ELSE gift_codes[i].order_id = NULL

\* The webhook of S2 claimed a code of 100 and then found no code of 200.
C6_Witness ==
    /\ PoolExhausted(1)
    /\ inv[1].order_serial = "S2"
    /\ Len(inv[1].assigned_codes) = 1
    /\ inv[1].assigned_codes[1].value = 100
    /\ gift_codes = before

\* C7: a webhook invocation that has returned, whatever its branch, has
\* appended exactly one row to webhook_events.
C7_ExactlyOneAudit ==
    \A p \in Procs : WebhookDone(p) => Len(webhook_events[p]) = 1

\* The rows hold, for every gift line of the order, the line's quantity.
FullyAllocated(rows, o) ==
    \A i \in DOMAIN GiftLines(o) :
        CountAssigned(rows, o, GiftLines(o)[i].value) >= GiftLines(o)[i].quantity

\* The codes the table has assigned to the order.
HeldCodes(o) ==
    {gift_codes[i].code : i \in {j \in DOMAIN gift_codes : gift_codes[j].order_id = o}}

\* C8: a webhook served alone for an order that held all its codes when the
\* webhook started is processed without a new assignment, with an empty
\* assigned_codes, no email attempt, no order-note update and one audit row
\* "processed" counting zero codes; and no order gets more than one email
\* attempt over its deliveries.
C8_RedeliveryIsQuiet ==
    /\ \A p \in Procs :
          (/\ Processed(p)
           /\ GiftLines(inv[p].order_serial) # <<>>
           /\ FullyAllocated(before, inv[p].order_serial))
          => /\ inv[p].response.assigned_codes = <<>>
             /\ \A i \in DOMAIN before : gift_codes[i] = before[i]
             /\ emails[p] = <<>>
             /\ note_updates[p] = <<>>
             /\ webhook_events[p] =
                    <<AuditRow("processed", "Przydzielono", 0, inv[p].order_serial)>>
    /\ \A o \in Orders : emails_total[o] <= 1

\* The redelivery for S1 has been processed after the first delivery had
\* claimed the two codes and attempted the email.
C8_Witness ==
    /\ Processed(1)
    /\ inv[1].order_serial = "S1"
    /\ FullyAllocated(before, "S1")
    /\ emails_total["S1"] = 1
    /\ idosell_client

\* C9: when the email call of a webhook served alone has failed, the webhook
\* answers 200 "processed" with the codes it claimed, the table keeps those
\* codes assigned to the order, and the order never gets a second email
\* attempt.
C9_EmailFailureKeepsCodes ==
    \A p \in Procs :
        (/\ WebhookDone(p)
         /\ emails[p] # <<>>
         /\ emails[p][1].outcome # "sent")
        => /\ inv[p].response.status_code = 200
           /\ inv[p].response.status = "processed"
           /\ inv[p].response.assigned_codes # <<>>
           /\ inv[p].response.assigned_codes = emails[p][1].codes
           /\ CodesOf(inv[p].response.assigned_codes)
                 \subseteq HeldCodes(inv[p].order_serial)
           /\ emails_total[inv[p].order_serial] = 1

\* The webhook of S1 claimed two codes and its email call raised.
C9_Witness ==
    /\ Processed(1)
    /\ inv[1].order_serial = "S1"
    /\ Len(emails[1]) = 1
    /\ emails[1][1].outcome = "TypeError"
    /\ Len(inv[1].response.assigned_codes) = 2

\* C10: when a webhook served alone ends processed for an order whose
\* earlier webhook had met an empty pool while the order held no code, the
\* order holds exactly the quantity of every gift line, the response lists
\* every code the order holds, and so does the email where the order has an
\* address.
C10_RetryAfterReplenishment ==
    [][\A p \in Procs :
          (/\ inv[p].pc = "notify"
           /\ inv'[p].pc = "done"
           /\ inv[p].order_serial \in exhausted)
          => LET o == inv[p].order_serial
             IN  /\ \A i \in DOMAIN GiftLines(o) :
                       CountAssigned(gift_codes', o, GiftLines(o)[i].value)
                          = GiftLines(o)[i].quantity
                 /\ inv'[p].response.status = "processed"
                 /\ CodesOf(inv'[p].response.assigned_codes) = HeldCodes(o)'
                 /\ OrderEmail(o) =>
                       /\ Len(emails'[p]) = 1
                       /\ CodesOf(emails'[p][1].codes) = HeldCodes(o)']_vars

\* The redelivery for S1, whose first webhook met an empty pool, has claimed
\* and committed its two codes and is about to notify.
C10_Witness ==
    /\ inv[1].pc = "notify"
    /\ inv[1].order_serial = "S1"
    /\ "S1" \in exhausted
    /\ Len(inv[1].assigned_codes) = 2
    /\ CountAssigned(gift_codes, "S1", 100) = 2

\* The table holds the rows it held when the request started, as they were.
KeepsRows == \A i \in DOMAIN before : i \in DOMAIN gift_codes /\ gift_codes[i] = before[i]

\* The webhook of slot p has returned and none of its order's prepaids has
\* paymentStatus "y".
UnpaidDone(p) ==
    /\ WebhookDone(p)
    /\ inv[p].order_serial # NULL
    /\ \A i \in DOMAIN inv[p].prepaids : inv[p].prepaids[i] # "y"

\* C11: a webhook served alone for an order without a prepaid of status "y"
\* leaves the rows of gift_codes as they were, claims nothing, attempts no
\* email and no note update, writes the one audit row "ignored_unpaid" and
\* answers 200, whether or not the order has gift-card lines.
C11_UnpaidIsIgnored ==
    \A p \in Procs :
        UnpaidDone(p) =>
            /\ KeepsRows
            /\ inv[p].assigned_codes = <<>>
            /\ emails[p] = <<>>
            /\ note_updates[p] = <<>>
            /\ webhook_events[p] =
                  <<AuditRow("ignored_unpaid", "unpaid", 0, inv[p].order_serial)>>
            /\ inv[p].response = JSONResponse(200, "ignored", <<>>)

\* The unpaid webhook of S1, an order with a gift line, has returned while
\* the pool held two unused codes of 100.
C11_Witness ==
    /\ UnpaidDone(1)
    /\ inv[1].order_serial = "S1"
    /\ inv[1].prepaids = <<"n">>
    /\ CountAssigned(gift_codes, NULL, 100) = 2

\* The request of slot p has returned from admin_manual_issue.
ManualDone(p) == inv[p].pc = "done" /\ inv[p].handler = "manual"

\* C12: when two manual issuances for the same order and denomination are
\* served one right after the other and the first answered reused = false,
\* the second answers 200 with the same code and reused = true, and the
\* order holds exactly one code.
C12_ManualIssueTwice ==
    \A p \in Procs :
        (/\ ManualDone(p)
         /\ previous.order_serial = inv[p].order_serial
         /\ previous.value = inv[p].gift_positions[1].value
         /\ previous.response.status_code = 200
         /\ ~previous.response.reused)
        => /\ inv[p].response.status_code = 200
           /\ inv[p].response.reused
           /\ inv[p].response.assigned_codes = previous.response.assigned_codes
           /\ Cardinality(HeldCodes(inv[p].order_serial)) = 1

\* The second of two manual issuances of a code of 100 for S0 has returned
\* while the pool still held an unused code of 100.
C12_Witness ==
    /\ ManualDone(1)
    /\ inv[1].order_serial = "S0"
    /\ previous.order_serial = "S0"
    /\ previous.value = 100
    /\ inv[1].gift_positions[1].value = 100
    /\ ~previous.response.reused
    /\ inv[1].response.reused
    /\ CountAssigned(gift_codes, NULL, 100) >= 1

\* The ids of the rows that were assigned to the order when the request
\* started.
HeldBefore(o) == {i \in DOMAIN before : before[i].order_id = o}

\* C13: a manual issuance served alone for an order that held a code when
\* it started, of whatever denomination and however assigned, leaves the
\* rows of gift_codes as they were and answers 200 with reused = true and
\* the order's code of lowest id.
C13_ManualIssueReuses ==
    \A p \in Procs :
        (ManualDone(p) /\ HeldBefore(inv[p].order_serial) # {})
        => LET first == before[Min(HeldBefore(inv[p].order_serial))]
           IN  /\ KeepsRows
               /\ HeldCodes(inv[p].order_serial)
                     = {before[i].code : i \in HeldBefore(inv[p].order_serial)}
               /\ inv[p].response =
                     ManualResponse(200, "ok",
                         <<[code |-> first.code, value |-> first.value]>>, TRUE)

\* A manual issuance of a code of 200 for S1 has returned after a webhook
\* had given S1 its two codes of 100.
C13_Witness ==
    /\ ManualDone(1)
    /\ inv[1].order_serial = "S1"
    /\ inv[1].gift_positions[1].value = 200
    /\ Cardinality(HeldBefore("S1")) = 2
    /\ previous = NoManualCall

\* The webhook of slot p was for a paid order.
PaidDone(p) ==
    /\ WebhookDone(p)
    /\ inv[p].order_serial # NULL
    /\ \E i \in DOMAIN inv[p].prepaids : inv[p].prepaids[i] = "y"

\* When the request started, the pool lacked unused codes for the shortfall
\* of one of the order's gift lines.
PoolTooSmall(o) ==
    \E i \in DOMAIN GiftLines(o) :
        LET line == GiftLines(o)[i]
        IN  line.quantity - CountAssigned(before, o, line.value)
               > CountAssigned(before, NULL, line.value)

\* C14: a webhook served alone answers 400 when the payload has no order
\* envelope, 500 when the pool cannot cover the order's shortfall, and 200
\* when the order is unpaid, when it has no gift lines and when it is
\* processed, a failed email or note call included.
C14_ResponseStatus ==
    \A p \in Procs :
        WebhookDone(p) =>
            LET o == inv[p].order_serial
                code == inv[p].response.status_code
            IN  /\ o = NULL => code = 400
                /\ PaidDone(p) /\ PoolTooSmall(o) => code = 500
                /\ UnpaidDone(p) => code = 200
                /\ PaidDone(p) /\ GiftLines(o) = <<>> => code = 200
                /\ Processed(p) => code = 200
                /\ emails[p] # <<>> \/ note_updates[p] # <<>> => code = 200

\* The webhook of S1 has been processed with an email call and a note call
\* that both raised.
C14_Witness ==
    /\ Processed(1)
    /\ inv[1].order_serial = "S1"
    /\ emails[1] # <<>>
    /\ emails[1][1].outcome = "TypeError"
    /\ note_updates[1] # <<>>
    /\ note_updates[1][1].outcome = "AttributeError"
    /\ inv[1].response.status_code = 200

\* C15: after a call of admin_add_codes, a batch with a repeated or an
\* existing code included, the call has answered 200 and the table holds
\* every code of the batch exactly once.
C15_DuplicatesSkipped ==
    added # NoAddCall =>
        /\ added.status_code = 200
        /\ \A i \in DOMAIN added.codes :
              Cardinality({j \in DOMAIN gift_codes :
                              gift_codes[j].code = added.codes[i]}) = 1

\* The email call or the note call of slot p's webhook has raised or failed.
DownstreamFailed(p) ==
    \/ \E i \in DOMAIN emails[p] : emails[p][i].outcome # "sent"
    \/ \E i \in DOMAIN note_updates[p] : note_updates[p][i].outcome # "ok"

\* The audit row of a webhook that claimed the same codes for the same order
\* and whose email and note calls succeeded.
SuccessAuditRow(r) ==
    AuditRow("processed", "Przydzielono", Len(r.assigned_codes), r.order_serial)

\* C16: when the email call or the note call of a processed webhook has
\* failed, the audit row of the webhook differs, in status or message, from
\* the row the webhook writes when both calls succeed.
C16_AuditSurfacesFailure ==
    \A p \in Procs :
        (Processed(p) /\ DownstreamFailed(p)) =>
            \A i \in DOMAIN webhook_events[p] :
                webhook_events[p][i] # SuccessAuditRow(inv[p])

\* The codes the order holds and did not hold when the request started.
NewlyHeld(o) ==
    {gift_codes[i].code :
        i \in {j \in DOMAIN gift_codes :
                  /\ gift_codes[j].order_id = o
                  /\ j \in DOMAIN before => before[j].order_id # o}}

\* C17: where the INSERT of log_webhook_event may raise, a webhook served
\* alone still answers what its payload and the pool decide, and leaves the
\* table that answer stands for: 400 "ignored" without an envelope, 200
\* "ignored" when unpaid, 200 "ok" without gift lines, and with gift lines
\* either 500 with the rows as they were or 200 "processed" listing exactly
\* the codes it committed to the order.
C17_AuditFailureIsHarmless ==
    \A p \in Procs :
        WebhookDone(p) =>
            LET o == inv[p].order_serial
                response == inv[p].response
            IN  /\ o = NULL =>
                      response = JSONResponse(400, "ignored", <<>>) /\ KeepsRows
                /\ UnpaidDone(p) =>
                      response = JSONResponse(200, "ignored", <<>>) /\ KeepsRows
                /\ PaidDone(p) /\ GiftLines(o) = <<>> =>
                      response = JSONResponse(200, "ok", <<>>) /\ KeepsRows
                /\ PaidDone(p) /\ GiftLines(o) # <<>> =>
                      \/ /\ response = JSONResponse(500, "error", <<>>)
                         /\ KeepsRows
                      \/ /\ response =
                               JSONResponse(200, "processed", inv[p].assigned_codes)
                         /\ ~PoolTooSmall(o)
                         /\ FullyAllocated(gift_codes, o)
                         /\ CodesOf(response.assigned_codes) = NewlyHeld(o)
                /\ PaidDone(p) /\ PoolTooSmall(o) => response.status_code = 500

\* The webhook of S1 has committed its two codes and answered "processed"
\* although the INSERT of its audit row raised.
C17_Witness ==
    /\ audit_fails
    /\ Processed(1)
    /\ inv[1].order_serial = "S1"
    /\ webhook_events[1] = <<>>
    /\ Len(inv[1].response.assigned_codes) = 2
    /\ CountAssigned(gift_codes, "S1", 100) = 2

\* C18: a processed webhook served alone has called send_giftcard_email,
\* once, exactly when it claimed at least one code and its order carries a
\* customer email; a webhook that skipped the call is processed with 200
\* and its audit row "processed", and a webhook that is not processed has
\* made no call.
C18_EmailIffNewCodes ==
    \A p \in Procs :
        WebhookDone(p) =>
            LET o == inv[p].order_serial
                attempted == emails[p] # <<>>
            IN  /\ Len(emails[p]) <= 1
                /\ ~Processed(p) => ~attempted
                /\ Processed(p) =>
                      /\ attempted <=>
                            (inv[p].response.assigned_codes # <<>> /\ OrderEmail(o))
                      /\ inv[p].response.status_code = 200
                      /\ webhook_events[p] = <<SuccessAuditRow(inv[p])>>

\* The webhook of S2, an order without a customer email, has claimed its
\* two codes and has been processed without an email call.
C18_Witness ==
    /\ Processed(1)
    /\ inv[1].order_serial = "S2"
    /\ Len(inv[1].response.assigned_codes) = 2
    /\ emails[1] = <<>>
    /\ ~audit_fails

\* C19: a webhook served alone calls update_order_note, once, exactly when
\* it is past its commit with at least one newly claimed code and an Idosell
\* client is configured; without a client it makes no call; and when the
\* call raises, the webhook still answers 200 "processed" with the codes it
\* claimed, which the table keeps assigned to the order.
C19_NoteStepIsOptional ==
    \A p \in Procs :
        WebhookDone(p) =>
            LET attempted == note_updates[p] # <<>>
                codes == inv[p].assigned_codes
            IN  /\ Len(note_updates[p]) <= 1
                /\ attempted <=>
                      (Processed(p) /\ codes # <<>> /\ idosell_client)
                /\ ~idosell_client => note_updates[p] = <<>>
                /\ (attempted /\ note_updates[p][1].outcome # "ok") =>
                      /\ inv[p].response = JSONResponse(200, "processed", codes)
                      /\ CodesOf(codes) \subseteq HeldCodes(inv[p].order_serial)

\* The webhook of S2 has claimed its two codes and has been processed with
\* a note call that raised.
C19_Witness ==
    /\ Processed(1)
    /\ inv[1].order_serial = "S2"
    /\ idosell_client
    /\ Len(note_updates[1]) = 1
    /\ note_updates[1][1].outcome = "AttributeError"
    /\ Len(inv[1].response.assigned_codes) = 2

\* C20: the first webhook of S1 (two codes of 100, a customer email), served
\* alone on a pool of exactly two unused codes of 100 and processed, has
\* assigned those two codes to S1, has made one email call that carries two
\* attachments, and has written the one audit row "processed".
C20_FirstDeliveryScenario ==
    \A p \in Procs :
        (/\ Processed(p)
         /\ inv[p].order_serial = "S1"
         /\ HeldBefore("S1") = {}
         /\ CountAssigned(before, NULL, 100) = 2)
        => /\ CountAssigned(gift_codes, "S1", 100) = 2
           /\ CodesOf(inv[p].response.assigned_codes) = HeldCodes("S1")
           /\ Len(emails[p]) = 1
           /\ emails[p][1].pdf_files = 2
           /\ webhook_events[p] = <<SuccessAuditRow(inv[p])>>

\* The lines of part stand in the note, one after the other.
Contains(note, part) ==
    \E i \in 0..(Len(note) - Len(part)) :
        SubSeq(note, i + 1, i + Len(part)) = part

\* C21: whatever the order of the calls of append_order_note_with_voucher on
\* an order and of their get_order_note and set_order_note steps, the note
\* holds the text it had before the first call, followed by the separator,
\* and the voucher block of every call that has returned.
C21_NoteKeepsEverything ==
    /\ \A block \in note_history.returned : Contains(order_note, block)
    /\ (note_history.returned # {} /\ ~IsBlank(note_history.original)) =>
          Contains(order_note, RStrip(note_history.original) \o Separator)

\* The payload of the delivery has been classified and had an order in it.
ClassifiedOrder == delivery.pc = "classified" /\ delivery.outcome.shape # "none"

\* The product lines whose productId is the gift card's (the number, or its
\* numeral) and whose variant text resolves to a denomination.
QualifyingLines(products) ==
    SelectSeq(products,
              LAMBDA item :
                  /\ item.productId \in {JInt(GIFT_PRODUCT_ID), JStr("14409")}
                  /\ MatchedValue(item) \in Denominations)

\* C22: the example payload (one prepaid with paymentStatus "y", one line of
\* the gift card with variant "200 zl" and quantity 2) classifies as paid
\* with the single gift line {value 200, quantity 2}; an order is answered
\* "unpaid" exactly when none of its prepaids has paymentStatus "y"; and the
\* gift lines of a paid order are its product lines whose productId is
\* GIFT_PRODUCT_ID and whose variant resolves to a denomination, in their
\* order, the other lines being dropped without an error.
C22_Classification ==
    ClassifiedOrder =>
        LET details == delivery.payload.orderDetails
            outcome == delivery.outcome
            lines == QualifyingLines(Products(details))
            paid == \E i \in DOMAIN details.prepaids : details.prepaids[i] = "y"
        IN  /\ (outcome.reason = "unpaid") <=> ~paid
            /\ details = ExampleDetails =>
                  /\ outcome.status = "allocating"
                  /\ outcome.gift_positions = <<[value |-> 200, quantity |-> 2]>>
            /\ outcome.reason = "ValueError" =>
                  \E i \in DOMAIN lines : QuantityRaises(lines[i])
            /\ (paid /\ outcome.reason # "ValueError") =>
                  /\ Len(outcome.gift_positions) = Len(lines)
                  /\ \A i \in DOMAIN lines :
                        outcome.gift_positions[i].value = MatchedValue(lines[i])
                  /\ (outcome.reason = "no_giftcards") <=> (lines = <<>>)

\* The example payload, with its order under the key "order", has been
\* classified.
C22_Witness ==
    /\ ClassifiedOrder
    /\ delivery.payload.orderDetails = ExampleDetails
    /\ delivery.payload.order = "dict"
    /\ delivery.outcome.gift_positions = <<[value |-> 200, quantity |-> 2]>>

\* The quantity the gift lines ask of a denomination, all lines together.
RECURSIVE TotalQuantity(_, _)
TotalQuantity(positions, value) ==
    IF positions = <<>> THEN 0
    ELSE (IF Head(positions).value = value THEN Head(positions).quantity ELSE 0)
         + TotalQuantity(Tail(positions), value)

\* C23: after a webhook served alone has been processed for an order with
\* several gift lines of one denomination D, started on a pool that held as
\* many unused codes of D as the lines ask together, the order holds as many
\* codes of D as the lines ask together (q1 + q2).
C23_SameDenominationLines ==
    \A p \in Procs :
        Processed(p) =>
            \A value \in Denominations :
                LET total == TotalQuantity(inv[p].gift_positions, value)
                IN  (total > 0 /\ CountAssigned(before, NULL, value) >= total)
                    => CountAssigned(gift_codes, inv[p].order_serial, value)
                          = total

\* The order_id of the committed row that holds the code.
OwnerOf(code) ==
    LET rows == {i \in DOMAIN gift_codes : gift_codes[i].code = code}
    IN  IF rows = {} THEN NULL ELSE gift_codes[Min(rows)].order_id

\* C24: once a webhook has answered "processed", whatever ran at the same
\* time, the committed table holds for every gift line (D, q) of the order
\* at least q codes of D with the order's serial, and every code the
\* response lists is assigned to the order.
C24_ProcessedMeansSatisfied ==
    \A p \in Procs :
        Processed(p) =>
            /\ \A i \in DOMAIN inv[p].gift_positions :
                  LET line == inv[p].gift_positions[i]
                  IN  CountAssigned(gift_codes, inv[p].order_serial, line.value)
                         >= line.quantity
            /\ \A code \in CodesOf(inv[p].response.assigned_codes) :
                  OwnerOf(code) = inv[p].order_serial

\* max(0, n)
Shortfall(n) == IF n > 0 THEN n ELSE 0

\* C25: a webhook served alone and processed, for an order that held k codes
\* of the denomination D of a gift line (D, N) when it started, has claimed
\* max(0, N - k) codes of D, and its assigned_codes lists the codes it
\* claimed and none the order held before.
C25_OnlyTheShortfall ==
    \A p \in Procs :
        Processed(p) =>
            /\ \A i \in DOMAIN inv[p].gift_positions :
                  LET line == inv[p].gift_positions[i]
                      o == inv[p].order_serial
                      k == CountAssigned(before, o, line.value)
                      listed == {j \in DOMAIN inv[p].response.assigned_codes :
                                    inv[p].response.assigned_codes[j].value
                                        = line.value}
                  IN  /\ CountAssigned(gift_codes, o, line.value) - k
                            = Shortfall(line.quantity - k)
                      /\ Cardinality(listed) = Shortfall(line.quantity - k)
            /\ CodesOf(inv[p].response.assigned_codes)
                  = NewlyHeld(inv[p].order_serial)

\* The webhook of S1 (two codes of 100) was processed after a manual
\* issuance had given S1 one code of 100: it claimed one more.
C25_Witness ==
    /\ Processed(1)
    /\ inv[1].order_serial = "S1"
    /\ previous.order_serial = "S1"
    /\ CountAssigned(before, "S1", 100) = 1
    /\ Len(inv[1].response.assigned_codes) = 1
    /\ CountAssigned(gift_codes, "S1", 100) = 2

\* C26: with requests served one after the other, the row a call of
\* assign_unused_gift_code is about to update is the unused row of the
\* denomination with the smallest id, and in the committed table no unused
\* code has a smaller id than an assigned code of the same denomination.
C26_AssignedPrefix ==
    /\ \A p \in Procs :
          inv[p].pc \in {"update", "m_update"} =>
              \A i \in DOMAIN gift_codes :
                  (/\ Visible(p)[i].value = gift_codes[inv[p].gift_id].value
                   /\ Visible(p)[i].order_id = NULL)
                  => inv[p].gift_id <= i
    /\ \A i, j \in DOMAIN gift_codes :
          (/\ i < j
           /\ gift_codes[i].value = gift_codes[j].value
           /\ gift_codes[j].order_id # NULL)
          => gift_codes[i].order_id # NULL

\* A processed webhook has left an assigned code of 100 followed, after a
\* code of 200, by an unused code of 100.
C26_Witness ==
    /\ Processed(1)
    /\ Len(gift_codes) = MaxCodes
    /\ gift_codes[1].value = 100 /\ gift_codes[1].order_id # NULL
    /\ gift_codes[2].value = 200
    /\ gift_codes[MaxCodes].value = 100 /\ gift_codes[MaxCodes].order_id = NULL

\* What a run of the allocation loop alone on a table computes: the table
\* and the list of codes after n calls of assign_unused_gift_code for one
\* denomination, each taking the unused row of lowest id ...
RECURSIVE ClaimCodes(_, _, _, _)
ClaimCodes(rows, value, order_id, n) ==
    LET free == {i \in DOMAIN rows :
                    rows[i].value = value /\ rows[i].order_id = NULL}
    IN  IF n <= 0 THEN [ok |-> TRUE, rows |-> rows, codes |-> <<>>]
        ELSE IF free = {} THEN [ok |-> FALSE, rows |-> rows, codes |-> <<>>]
        ELSE LET id == Min(free)
                 rest == ClaimCodes([rows EXCEPT ![id].order_id = order_id],
                                    value, order_id, n - 1)
             IN  [ok |-> rest.ok, rows |-> rest.rows,
                  codes |-> <<[code |-> rows[id].code, value |-> rows[id].value]>>
                            \o rest.codes]

\* ... and after the loop over the gift positions, taken in their order.
RECURSIVE Fulfil(_, _, _)
Fulfil(rows, order_id, positions) ==
    IF positions = <<>> THEN [ok |-> TRUE, rows |-> rows, codes |-> <<>>]
    ELSE LET position == Head(positions)
             existing_count == CountAssigned(rows, order_id, position.value)
             claimed == ClaimCodes(rows, position.value, order_id,
                                   position.quantity - existing_count)
             rest == Fulfil(claimed.rows, order_id, Tail(positions))
         IN  IF ~claimed.ok THEN [ok |-> FALSE, rows |-> rows, codes |-> <<>>]
             ELSE [ok |-> rest.ok, rows |-> rest.rows,
                   codes |-> claimed.codes \o rest.codes]

\* C27: what a webhook served alone leaves is a function of the table it
\* started from and of its payload: when it is processed, the table and the
\* assigned_codes list (codes and order) are those of the loop run over the
\* gift lines in payload order; when it fails on an empty pool, that loop
\* fails too and the table is the one it started from (the rows inserted
\* after the webhook ended aside). Two runs from equal tables with equal
\* payloads therefore end alike.
C27_Deterministic ==
    \A p \in Procs :
        LET run == Fulfil(before, inv[p].order_serial,
                          GiftLines(inv[p].order_serial))
            rows == SubSeq(gift_codes, 1, Len(before))
        IN  /\ Processed(p) =>
                /\ run.ok
                /\ rows = run.rows
                /\ inv[p].response.assigned_codes = run.codes
            /\ PoolExhausted(p) =>
                /\ ~run.ok
                /\ rows = before

\* The webhook of S2 has been processed on a pool whose code of 200 has a
\* lower id than its code of 100: assigned_codes lists the code of 100
\* first, as the payload does.
C27_Witness ==
    /\ Processed(1)
    /\ inv[1].order_serial = "S2"
    /\ Len(inv[1].response.assigned_codes) = 2
    /\ inv[1].response.assigned_codes[1].value = 100
    /\ inv[1].response.assigned_codes[2].value = 200
    /\ gift_codes[1].value = 200
    /\ gift_codes[1].order_id = "S2"

\* The denomination whose codes ran out, as the audit row of the failed
\* webhook names it.
FailedValue(p) == webhook_events[p][1].message[2]

\* C28: after a webhook served alone has failed on an empty pool at one of
\* its denominations, the order holds the full quantity of every
\* denomination the loop had completed before: what was claimed for the
\* earlier lines stays committed.
C28_EarlierUnitsStay ==
    \A p \in Procs :
        PoolExhausted(p) =>
            \A i \in DOMAIN inv[p].gift_positions :
                (\E j \in DOMAIN inv[p].gift_positions :
                    /\ i < j
                    /\ inv[p].gift_positions[j].value = FailedValue(p)
                    /\ \A k \in 1..(j - 1) :
                          inv[p].gift_positions[k].value # FailedValue(p))
                => CountAssigned(gift_codes, inv[p].order_serial,
                                 inv[p].gift_positions[i].value)
                      >= inv[p].gift_positions[i].quantity

\* The shapes of a payload that match structurally, in the order the
\* handler tries them.
MatchingShapes(payload) ==
    SelectSeq(<<"order", "orders", "Results", "flat">>,
              LAMBDA shape :
                  /\ payload.is_object
                  /\ \/ shape = "order" /\ payload.order = "dict"
                     \/ shape = "orders" /\ payload.orders = "first_dict"
                     \/ shape = "Results" /\ payload.Results = "first_dict"
                     \/ /\ shape = "flat"
                        /\ payload.orderId
                        /\ payload.orderSerialNumber)

\* C29: the order a payload is classified by is the one of the first shape,
\* among "order", "orders", "Results" and the flat payload, that matches
\* structurally; "no_order" is answered only when none matches, also when a
\* key tried earlier is present and malformed.
C29_FirstMatchingShape ==
    delivery.pc = "classified" =>
        LET shapes == MatchingShapes(delivery.payload)
        IN  IF shapes = <<>>
            THEN delivery.outcome.reason = "no_order"
            ELSE /\ delivery.outcome.reason # "no_order"
                 /\ delivery.outcome.shape = shapes[1]

\* C30: the classifier never ends by an exception and every gift line it
\* returns has a quantity of at least 1, whatever productQuantity and
\* quantity hold (nothing, zero, a negative number, a string that is no
\* number).
C30_PositiveQuantity ==
    ClassifiedOrder =>
        /\ delivery.outcome.reason # "ValueError"
        /\ \A i \in DOMAIN delivery.outcome.gift_positions :
              delivery.outcome.gift_positions[i].quantity >= 1

\* Some configured label is a substring of one of the line's variant texts.
LabelHit(item) ==
    \E i \in DOMAIN GiftLabels :
        \E text \in {item.productName, item.sizePanelName,
                     item.sizeName, item.versionName} :
            HasLabel(text, GiftLabels[i])

\* The size-label field of a line: sizePanelName or sizeName.
SizeLabel(item) ==
    IF item.sizePanelName # "" THEN item.sizePanelName ELSE item.sizeName

\* The first run of consecutive digits of a text, as characters.
RECURSIVE FirstRun(_)
FirstRun(chars) ==
    IF chars = <<>> THEN <<>>
    ELSE IF ~IsDigit(chars[1]) THEN FirstRun(Tail(chars))
    ELSE LET stop == {i \in DOMAIN chars : ~IsDigit(chars[i])}
         IN  IF stop = {} THEN chars ELSE SubSeq(chars, 1, Min(stop) - 1)

\* C31: a gift-card line none of whose variant texts contains a configured
\* label is accepted iff the first run of consecutive digits of its
\* size-label field is a configured denomination, and then with that value;
\* digits later in the field, after a non-digit, do not matter.
C31_FirstRunOfDigits ==
    (ClassifiedOrder /\ delivery.outcome.reason \in {"none", "no_giftcards"}) =>
        LET products == Products(delivery.payload.orderDetails)
            fallback == SelectSeq(products,
                            LAMBDA item :
                                /\ item.productId \in {JInt(GIFT_PRODUCT_ID),
                                                       JStr("14409")}
                                /\ ~LabelHit(item))
            number(item) == ToNumber(FirstRun(Chars(SizeLabel(item))))
        IN  \A i \in DOMAIN fallback :
                /\ IsGiftLine(fallback[i]) <=>
                      number(fallback[i]) \in Denominations
                /\ IsGiftLine(fallback[i]) =>
                      MatchedValue(fallback[i]) = number(fallback[i])

\* Both slots served admin_manual_issue for the same order and each ran its
\* lookup of an existing code before the other committed: neither reused.
ConcurrentManualIssues(p, q) ==
    /\ p # q
    /\ ManualDone(p) /\ ManualDone(q)
    /\ inv[p].order_serial = inv[q].order_serial
    /\ inv[p].response.status_code = 200 /\ ~inv[p].response.reused
    /\ inv[q].response.status_code = 200 /\ ~inv[q].response.reused

\* C32: two manual issuances for the same order that both ran the lookup of
\* an existing code before either committed leave at most one code assigned
\* to the order, and both answer with the same code.
C32_ConcurrentManualIssue ==
    \A p, q \in Procs :
        ConcurrentManualIssues(p, q) =>
            /\ Cardinality(HeldCodes(inv[p].order_serial)) <= 1
            /\ inv[p].response.assigned_codes = inv[q].response.assigned_codes

\* The codes the calls of a list were made for.
CalledCodes(calls) == UNION {CodesOf(calls[i].codes) : i \in DOMAIN calls}

\* C33: within one webhook invocation, deliveries being served one after
\* the other, an email attempt or an order-note update exists only once the
\* allocation has committed: the invocation
\* holds no uncommitted claim, it is answered "processed", and every code
\* the email or the note was made for is assigned to the order in the
\* committed table, so none of them is a claim that is rolled back later;
\* an invocation that fails, pool exhaustion included, attempts neither.
C33_NotifyAfterCommit ==
    \A p \in Procs :
        inv[p].handler = "webhook" =>
            /\ (emails[p] # <<>> \/ note_updates[p] # <<>>) =>
                  /\ Processed(p)
                  /\ session[p] = {}
                  /\ CalledCodes(emails[p]) \cup CalledCodes(note_updates[p])
                        \subseteq HeldCodes(inv[p].order_serial)
                  /\ CalledCodes(emails[p]) \cup CalledCodes(note_updates[p])
                        = CodesOf(inv[p].response.assigned_codes)
            /\ (WebhookDone(p) /\ inv[p].response.status_code = 500) =>
                  emails[p] = <<>> /\ note_updates[p] = <<>>

\* A webhook assigned codes, committed, and then attempted both the email
\* and the order-note update for them.
C33_Witness ==
    \E p \in Procs :
        /\ Processed(p)
        /\ inv[p].response.assigned_codes # <<>>
        /\ emails[p] # <<>>
        /\ note_updates[p] # <<>>
        /\ CalledCodes(emails[p]) \subseteq HeldCodes(inv[p].order_serial)

\* Two webhooks served one right after the other and both processed, for two
\* distinct orders with the same single gift line (D, N), the second of
\* which found at least N unused codes of D when it started.
TwoOrdersServed(p) ==
    /\ Processed(p)
    /\ previous # NoManualCall
    /\ previous.order_id # inv[p].order_id
    /\ Len(GiftLines(inv[p].order_id)) = 1
    /\ GiftLines(previous.order_id) = GiftLines(inv[p].order_id)
    /\ CountAssigned(before, NULL, GiftLines(inv[p].order_id)[1].value)
          >= GiftLines(inv[p].order_id)[1].quantity

\* C34: of two distinct orders (distinct orderId) with the same gift line
\* (D, N), with or without an orderSerialNumber, whose webhooks are served
\* one after the other with enough unused codes of D, each gets N newly
\* assigned codes reported in its own response: the codes of the first are
\* not counted toward the shortfall of the second.
C34_OwnShortfall ==
    \A p \in Procs :
        TwoOrdersServed(p) =>
            LET line == GiftLines(inv[p].order_id)[1]
                mine == CodesOf(inv[p].response.assigned_codes)
                theirs == CodesOf(previous.response.assigned_codes)
            IN  /\ Cardinality(theirs) = line.quantity
                /\ Cardinality(mine) = line.quantity
                /\ mine \cap theirs = {}
                /\ \A i \in DOMAIN before :
                      before[i].code \in mine => before[i].order_id = NULL

\* A manual issuance has returned for an order that held no code when the
\* request started, while the table held no unused code of the value asked.
ManualIssueOnEmptyPool(p) ==
    /\ ManualDone(p)
    /\ HeldBefore(inv[p].order_serial) = {}
    /\ CountAssigned(before, NULL, inv[p].gift_positions[1].value) = 0

\* C35: a manual issuance for an order with no assigned code, when no unused
\* code of the requested denomination exists, answers the conflict error
\* 409 without a code, leaves the rows of gift_codes as they were, attempts
\* no order-note update and writes no audit row.
C35_ConflictOnEmptyPool ==
    \A p \in Procs :
        ManualIssueOnEmptyPool(p) =>
            /\ inv[p].response.status_code = 409
            /\ inv[p].response.assigned_codes = <<>>
            /\ Len(gift_codes) >= Len(before)
            /\ SubSeq(gift_codes, 1, Len(before)) = before
            /\ note_updates[p] = <<>>
            /\ webhook_events[p] = <<>>

\* A manual issuance answered 409 with a configured Idosell client, while
\* the table held codes, none of them unused and of the value asked.
C35_Witness ==
    \E p \in Procs :
        /\ ManualIssueOnEmptyPool(p)
        /\ inv[p].response.status_code = 409
        /\ idosell_client
        /\ before # <<>>
        /\ gift_codes = before
====
